---- MODULE Spec2Model ----
(***************************************************************************)
(* Model of the language helpers of linkedart.js (LanguageHelpers):        *)
(* normalizeLanguageId, getLanguageId and doesObjectLanguageMatch.         *)
(*                                                                         *)
(* JavaScript strings are sequences of one-character strings, so that      *)
(* toLowerCase, the trailing-path regular expression and substring are     *)
(* computed, not assumed.  JavaScript values are tagged records.  A call   *)
(* that ends in a TypeError is the completion [ok |-> FALSE, ...].         *)
(***************************************************************************)
EXTENDS Integers, Sequences, FiniteSets, TLC

VARIABLES
    op,               \* which exported function was called ("idle" before a call)
    obj,              \* argument `object` / `obj`
    language,         \* argument `language` of doesObjectLanguageMatch
    lang_id,          \* argument `lang_id` of normalizeLanguageId
    languageOptions,  \* argument `languageOptions`
    result            \* completion of the call

vars == <<op, obj, language, lang_id, languageOptions, result>>

----------------------------------------------------------------------------
(* Bounds of the model *)

\* longest generated identifier string
MaxStrLen == 3
\* longest generated `language` array
MaxLangEntries == 2

----------------------------------------------------------------------------
(* JavaScript values *)

Undefined == [t |-> "undefined", s |-> <<>>, n |-> 0]
Null      == [t |-> "null", s |-> <<>>, n |-> 0]
Str(s)    == [t |-> "string", s |-> s, n |-> 0]
Num(n)    == [t |-> "number", s |-> <<>>, n |-> n]
Bool(b)   == [t |-> "boolean", s |-> <<>>, n |-> IF b THEN 1 ELSE 0]

\* x == undefined  (loose: true of undefined and of null)
IsNullish(p) == p.t \in {"undefined", "null"}

\* ToNumber(string) is 0: the empty string and strings of zeros
\* (of the strings the model draws)
StringIsZero(s) == \A i \in 1..Len(s) : s[i] = "0"

\* x == false  (loose equality: false, 0 and strings converting to 0)
LooseEqualsFalse(p) ==
    CASE p.t = "boolean" -> p.n = 0
      [] p.t = "number"  -> p.n = 0
      [] p.t = "string"  -> StringIsZero(p.s)
      [] OTHER           -> FALSE

\* truthiness of a value, as `if (x)` and `a && b` see it
Truthy(p) ==
    CASE p.t = "boolean" -> p.n = 1
      [] p.t = "number"  -> p.n # 0
      [] p.t = "string"  -> p.s # <<>>
      [] OTHER           -> FALSE

----------------------------------------------------------------------------
(* Strings *)

UpperLetters == <<"A", "B", "C", "D", "E", "F", "G", "H", "I", "J", "K", "L", "M",
                  "N", "O", "P", "Q", "R", "S", "T", "U", "V", "W", "X", "Y", "Z">>
LowerLetters == <<"a", "b", "c", "d", "e", "f", "g", "h", "i", "j", "k", "l", "m",
                  "n", "o", "p", "q", "r", "s", "t", "u", "v", "w", "x", "y", "z">>

UpperSet == { UpperLetters[i] : i \in DOMAIN UpperLetters }
LowerSet == { LowerLetters[i] : i \in DOMAIN LowerLetters }
LowerOf  == [ c \in UpperSet |->
                LowerLetters[CHOOSE i \in DOMAIN UpperLetters : UpperLetters[i] = c] ]

IsUpper(c) == c \in UpperSet
IsLower(c) == c \in LowerSet

\* [a-zA-Z]
IsAlpha(c) == IsUpper(c) \/ IsLower(c)

LowerChar(c) == IF IsUpper(c) THEN LowerOf[c] ELSE c

\* String.prototype.toLowerCase
toLowerCase(s) == [i \in 1..Len(s) |-> LowerChar(s[i])]

\* String.prototype.lastIndexOf("/"), 1-based; 0 when there is none
lastIndexOfSlash(s) ==
    IF \E i \in 1..Len(s) : s[i] = "/"
    THEN CHOOSE i \in 1..Len(s) : s[i] = "/" /\ \A j \in (i+1)..Len(s) : s[j] # "/"
    ELSE 0

\* lang.match(/\/[a-zA-Z]+$/): a "/" followed by one or more letters up to the end
matchesTrailingPath(s) ==
    \E i \in 1..Len(s) :
        /\ s[i] = "/"
        /\ i < Len(s)
        /\ \A j \in (i+1)..Len(s) : IsAlpha(s[j])

\* lang.substring(lang.lastIndexOf("/") + 1)
substringAfterLastSlash(s) == SubSeq(s, lastIndexOfSlash(s) + 1, Len(s))

----------------------------------------------------------------------------
(* Constants of the module *)

EN == <<"e", "n">>
ES == <<"e", "s">>
FR == <<"f", "r">>
AAT_EN == <<"h", "t", "t", "p", ":", "/", "/", "v", "o", "c", "a", "b", ".", "g", "e", "t", "t", "y", ".", "e", "d", "u", "/", "a", "a", "t", "/", "3", "0", "0", "3", "8", "8", "2", "7", "7">>
AAT_ES == <<"h", "t", "t", "p", ":", "/", "/", "v", "o", "c", "a", "b", ".", "g", "e", "t", "t", "y", ".", "e", "d", "u", "/", "a", "a", "t", "/", "3", "0", "0", "3", "8", "9", "3", "1", "1">>
AAT_FR == <<"h", "t", "t", "p", ":", "/", "/", "v", "o", "c", "a", "b", ".", "g", "e", "t", "t", "y", ".", "e", "d", "u", "/", "a", "a", "t", "/", "3", "0", "0", "3", "8", "8", "3", "0", "6">>

\* a lookup map is a set of (key, value) properties with distinct keys
DEFAULT_LANGUAGE_LOOKUP ==
    { [k |-> EN, v |-> AAT_EN], [k |-> ES, v |-> AAT_ES], [k |-> FR, v |-> AAT_FR] }

NO_LANGUAGE == <<"N", "O", "_", "L", "A", "N", "G", "U", "A", "G", "E">>

\* lookupMap[key] != undefined
HasKey(map, key) == \E e \in map : e.k = key
\* lookupMap[key]
Lookup(map, key) == (CHOOSE e \in map : e.k = key).v
Keys(map) == { e.k : e \in map }
MapValues(map) == { e.v : e \in map }

----------------------------------------------------------------------------
(* Completions *)

NoIds == <<>>
Throw == [ok |-> FALSE, v |-> Undefined, ids |-> NoIds, b |-> FALSE]
RetVal(p) == [ok |-> TRUE, v |-> p, ids |-> NoIds, b |-> FALSE]
RetIds(q) == [ok |-> TRUE, v |-> Undefined, ids |-> q, b |-> FALSE]
RetBool(x) == [ok |-> TRUE, v |-> Undefined, ids |-> NoIds, b |-> x]

----------------------------------------------------------------------------
(* normalizeLanguageId *)

\* mutant: a custom lookupMap is ignored
ActiveLookupMap_DefaultOnly(opts) == DEFAULT_LANGUAGE_LOOKUP

\* the lookup map in force: languageOptions.lookupMap when languageOptions and
\* its lookupMap are truthy, else the default table
ActiveLookupMap(opts) ==
    IF opts.kind = "object" /\ opts.hasLookupMap
    THEN opts.lookupMap
    ELSE DEFAULT_LANGUAGE_LOOKUP

\* mutant: the identifier is not lower-cased before the lookup
ReducedLang_NoLowerCase(s) ==
    IF matchesTrailingPath(s) THEN substringAfterLastSlash(s) ELSE s

\* the lower-cased identifier, reduced to its trailing path token when it has one
ReducedLang(s) ==
    LET lang == toLowerCase(s)
    IN  IF matchesTrailingPath(lang) THEN substringAfterLastSlash(lang) ELSE lang

\* mutant: the fallback returns the lower-cased, reduced identifier
normalizeLanguageId_ReturnsReduced(id, opts) ==
    IF IsNullish(id) THEN RetVal(Str(NO_LANGUAGE))
    ELSE IF id.t # "string" THEN Throw
    ELSE IF HasKey(ActiveLookupMap(opts), ReducedLang(id.s))
         THEN RetVal(Str(Lookup(ActiveLookupMap(opts), ReducedLang(id.s))))
         ELSE RetVal(Str(ReducedLang(id.s)))

normalizeLanguageId(id, opts) ==
    IF IsNullish(id) THEN RetVal(Str(NO_LANGUAGE))
    ELSE IF id.t # "string" THEN Throw      \* lang_id.toLowerCase is not a function
    ELSE LET lookupMap == ActiveLookupMap(opts)
             lang      == ReducedLang(id.s)
         IN  IF HasKey(lookupMap, lang)
             THEN RetVal(Str(Lookup(lookupMap, lang)))
             ELSE RetVal(id)

----------------------------------------------------------------------------
(* Fragments: objects that may carry a `language` attribute *)

\* an entry of a `language` array, or the single object of `language`:
\* a primitive value, or an object whose `id` is p (Undefined: no id)
Prim(p)     == [t |-> "prim", p |-> p]
ObjWithId(p) == [t |-> "object", p |-> p]

\* obj.language: a primitive (Undefined: no language attribute), one object,
\* or an array of entries
LangPrim(p)    == [t |-> "prim", p |-> p, items |-> <<>>]
LangObject(p)  == [t |-> "object", p |-> p, items |-> <<>>]
LangArray(es)  == [t |-> "array", p |-> Undefined, items |-> es]

UndefinedObject == [kind |-> "undefined", language |-> LangPrim(Undefined)]
Object(l)       == [kind |-> "object", language |-> l]

----------------------------------------------------------------------------
(* getLanguageId *)

\* Set.prototype.add on a Set kept in insertion order
SetAdd(q, x) == IF \E i \in 1..Len(q) : q[i] = x THEN q ELSE Append(q, x)

\* mutant: an object without a usable id counts as an unlabelled entry
AddEntry_NoIdIsNoLanguage(q, lang) ==
    IF lang.t = "prim" /\ IsNullish(lang.p) THEN SetAdd(q, Str(NO_LANGUAGE))
    ELSE IF lang.t = "prim" /\ lang.p.t = "string" THEN SetAdd(q, lang.p)
    ELSE IF lang.t = "object" /\ Truthy(lang.p) THEN SetAdd(q, lang.p)
    ELSE IF lang.t = "object" THEN SetAdd(q, Str(NO_LANGUAGE))
    ELSE q

\* the forEach callback: what one entry of the array adds to the Set
AddEntry(q, lang) ==
    IF lang.t = "prim" /\ IsNullish(lang.p) THEN SetAdd(q, Str(NO_LANGUAGE))
    ELSE IF lang.t = "prim" /\ lang.p.t = "string" THEN SetAdd(q, lang.p)
    ELSE IF lang.t = "object" /\ Truthy(lang.p) THEN SetAdd(q, lang.p)
    ELSE q

RECURSIVE CollectRaw(_, _)
\* obj.language.forEach(...) over the entries es, starting from the Set q
CollectRaw(es, q) ==
    IF es = <<>> THEN q ELSE CollectRaw(Tail(es), AddEntry(q, Head(es)))

\* Array.from(toReturn).map((item) => normalizeLanguageId(item, languageOptions))
MapNormalize(q, opts) ==
    IF \E i \in 1..Len(q) : ~normalizeLanguageId(q[i], opts).ok
    THEN Throw
    ELSE RetIds([i \in 1..Len(q) |-> normalizeLanguageId(q[i], opts).v])

getLanguageId(o, opts) ==
    IF o.kind = "undefined" \/ (o.language.t = "prim" /\ IsNullish(o.language.p))
    THEN RetIds(<<Str(NO_LANGUAGE)>>)
    ELSE IF o.language.t = "prim" /\ o.language.p.t = "string"
    THEN RetIds(<<normalizeLanguageId(o.language.p, opts).v>>)
    ELSE IF o.language.t # "array"
    THEN Throw                  \* obj.language.forEach is not a function
    ELSE MapNormalize(CollectRaw(o.language.items, <<>>), opts)

----------------------------------------------------------------------------
(* doesObjectLanguageMatch *)

\* languageOptions of an object literal
Options(hasMap, map, fallback, include) ==
    [kind |-> "object", hasLookupMap |-> hasMap, lookupMap |-> map,
     fallbackLanguage |-> fallback, includeItemsWithNoLanguage |-> include]

\* {}
EmptyOptions == Options(FALSE, {}, Undefined, Undefined)
\* the argument left out (undefined), and null
AbsentOptions == [EmptyOptions EXCEPT !.kind = "absent"]
NullOptions   == [EmptyOptions EXCEPT !.kind = "null"]

\* Array.prototype.includes
includes(q, x) == \E i \in 1..Len(q) : q[i] = x

\* mutant: the opt-out is tested with strict equality (=== false)
noLanguageRule_StrictFalse(lang_ids, opts) ==
    IF includes(lang_ids, Str(NO_LANGUAGE)) \/ Len(lang_ids) = 0
    THEN RetBool(opts.includeItemsWithNoLanguage # Bool(FALSE))
    ELSE RetBool(FALSE)

\* mutant: the opt-out is not consulted
noLanguageRule_IgnoresOptOut(lang_ids, opts) ==
    RetBool(includes(lang_ids, Str(NO_LANGUAGE)) \/ Len(lang_ids) = 0)

\* the tail of doesObjectLanguageMatch: the no-language rule
noLanguageRule(lang_ids, opts) ==
    IF includes(lang_ids, Str(NO_LANGUAGE)) \/ Len(lang_ids) = 0
    THEN IF LooseEqualsFalse(opts.includeItemsWithNoLanguage)
         THEN RetBool(FALSE)
         ELSE RetBool(TRUE)
    ELSE RetBool(FALSE)

\* mutant: the no-language rule is applied before the fallback language
fallbackRule_NoLanguageFirst(lang_ids, opts) ==
    IF opts.kind = "null" THEN Throw
    ELSE IF includes(lang_ids, Str(NO_LANGUAGE)) \/ Len(lang_ids) = 0
    THEN noLanguageRule(lang_ids, opts)
    ELSE IF IsNullish(opts.fallbackLanguage) THEN RetBool(FALSE)
    ELSE LET fb == normalizeLanguageId(opts.fallbackLanguage, opts)
         IN  IF ~fb.ok THEN Throw ELSE RetBool(includes(lang_ids, fb.v))

\* the fallback test and what follows it
fallbackRule(lang_ids, opts) ==
    IF opts.kind = "null" THEN Throw      \* property access on null
    ELSE IF IsNullish(opts.fallbackLanguage) THEN noLanguageRule(lang_ids, opts)
    ELSE LET fb == normalizeLanguageId(opts.fallbackLanguage, opts)
         IN  IF ~fb.ok THEN Throw
             ELSE IF includes(lang_ids, fb.v) THEN RetBool(TRUE)
             ELSE noLanguageRule(lang_ids, opts)

\* the default parameter: languageOptions = {} when the argument is undefined
DefaultedOptions(optsArg) == IF optsArg.kind = "absent" THEN EmptyOptions ELSE optsArg

doesObjectLanguageMatch(o, lang, optsArg) ==
    LET opts == DefaultedOptions(optsArg)
    IN  IF IsNullish(lang) THEN RetBool(TRUE)
        ELSE LET got == getLanguageId(o, opts)
                 req == normalizeLanguageId(lang, opts)
             IN  IF ~got.ok \/ ~req.ok THEN Throw
                 ELSE IF includes(got.ids, req.v) THEN RetBool(TRUE)
                 ELSE fallbackRule(got.ids, opts)

----------------------------------------------------------------------------
(* Inputs of the calls *)

URL_EN == <<"h", "t", "t", "p", ":", "/", "/", "v", "o", "c", "a", "b", ".", "g", "e", "t", "t", "y", ".", "e", "d", "u", "/", "l", "a", "n", "g", "u", "a", "g", "e", "/", "e", "n">>

\* characters of the generated strings: a letter in both cases, the path
\* separator and a digit
Alphabet == {"e", "E", "/", "1"}

\* every string over Alphabet of length at most n
Strs(n) == UNION { [1..k -> Alphabet] : k \in 0..n }

\* identifiers of the documentation's examples, in several spellings
NamedIds == {EN, <<"E", "n">>, FR, URL_EN, AAT_EN, NO_LANGUAGE}

\* lang_id of normalizeLanguageId: strings, and the non-strings a caller passes
LangIds ==
    {Undefined, Null, Num(5)} \cup { Str(s) : s \in Strs(MaxStrLen) \cup NamedIds }

\* lookup maps of one generated key, and the maps of the examples
LookupValues == {<<"e">>, <<"E">>, <<"1">>}
GeneratedMaps ==
    { {[k |-> key, v |-> val]} : key \in Strs(MaxStrLen - 1), val \in LookupValues }
NamedMaps ==
    { {},
      {[k |-> EN, v |-> FR]},
      {[k |-> FR, v |-> EN]},
      {[k |-> EN, v |-> FR], [k |-> FR, v |-> ES]},
      {[k |-> EN, v |-> NO_LANGUAGE]} }

\* languageOptions of normalizeLanguageId and getLanguageId: only lookupMap is read
MapOptions(maps) ==
    {AbsentOptions, NullOptions, EmptyOptions}
        \cup { Options(TRUE, m, Undefined, Undefined) : m \in maps }

\* entries of a `language` array
Entries ==
    { Prim(Undefined), Prim(Str(EN)), Prim(Str(URL_EN)), Prim(Str(FR)), Prim(Str(<<>>)),
      ObjWithId(Str(EN)), ObjWithId(Str(<<>>)),
      ObjWithId(Undefined), ObjWithId(Num(5)) }

Arrays == UNION { [1..k -> Entries] : k \in 0..MaxLangEntries }

\* the shapes of `obj`
Objects ==
    {UndefinedObject}
        \cup { Object(LangPrim(p)) : p \in {Undefined, Null, Num(5), Str(EN), Str(FR), Str(URL_EN)} }
        \cup { Object(LangObject(p)) : p \in {Undefined, Str(URL_EN)} }
        \cup { Object(LangArray(es)) : es \in Arrays }

\* `language` of doesObjectLanguageMatch
RequestedLanguages == {Undefined, Str(EN), Str(FR), Str(NO_LANGUAGE)}

FallbackLanguages == {Undefined, Str(FR), Str(NO_LANGUAGE)}

IncludeValues == {Undefined, Null, Num(0), Str(<<>>), Bool(TRUE), Bool(FALSE)}

MatchMaps == { {[k |-> EN, v |-> NO_LANGUAGE]} }

MatchOptions ==
    {AbsentOptions, NullOptions}
        \cup { Options(FALSE, {}, f, i) : f \in FallbackLanguages, i \in IncludeValues }
        \cup { Options(TRUE, m, f, i) :
                 m \in MatchMaps, f \in FallbackLanguages, i \in IncludeValues }

----------------------------------------------------------------------------
(* The calls *)

Init ==
    /\ op = "idle"
    /\ obj = UndefinedObject
    /\ language = Undefined
    /\ lang_id = Undefined
    /\ languageOptions = AbsentOptions
    /\ result = RetBool(FALSE)

CallNormalizeLanguageId ==
    /\ op = "idle"
    /\ \E id \in LangIds, opts \in MapOptions(GeneratedMaps \cup NamedMaps) :
        /\ op' = "normalizeLanguageId"
        /\ lang_id' = id
        /\ languageOptions' = opts
        /\ result' = normalizeLanguageId(id, opts)
    /\ UNCHANGED <<obj, language>>

CallGetLanguageId ==
    /\ op = "idle"
    /\ \E o \in Objects, opts \in MapOptions(NamedMaps) :
        /\ op' = "getLanguageId"
        /\ obj' = o
        /\ languageOptions' = opts
        /\ result' = getLanguageId(o, opts)
    /\ UNCHANGED <<language, lang_id>>

CallDoesObjectLanguageMatch ==
    /\ op = "idle"
    /\ \E o \in Objects, lang \in RequestedLanguages, opts \in MatchOptions :
        /\ op' = "doesObjectLanguageMatch"
        /\ obj' = o
        /\ language' = lang
        /\ languageOptions' = opts
        /\ result' = doesObjectLanguageMatch(o, lang, opts)
    /\ UNCHANGED lang_id

\* the call has returned (or thrown); the functions keep no state between calls
Return ==
    /\ op # "idle"
    /\ op' = "idle"
    /\ obj' = UndefinedObject
    /\ language' = Undefined
    /\ lang_id' = Undefined
    /\ languageOptions' = AbsentOptions
    /\ result' = RetBool(FALSE)

Next ==
    \/ CallNormalizeLanguageId
    \/ CallGetLanguageId
    \/ CallDoesObjectLanguageMatch
    \/ Return

Spec == Init /\ [][Next]_vars

----------------------------------------------------------------------------
(* Vocabulary of the properties *)

\* a call of doesObjectLanguageMatch with a defined requested language
MatchCall == op = "doesObjectLanguageMatch" /\ ~IsNullish(language)

\* the options doesObjectLanguageMatch works with
MatchOpts == DefaultedOptions(languageOptions)

\* a fallback language is set
FallbackSet(opts) == opts.kind = "object" /\ ~IsNullish(opts.fallbackLanguage)

\* got: the fragment's ids; req, fb: the normalized requested and fallback language
RequestedMatches(got, req) == got.ok /\ req.ok /\ includes(got.ids, req.v)
FallbackMatches(got, opts, fb) ==
    got.ok /\ FallbackSet(opts) /\ fb.ok /\ includes(got.ids, fb.v)

\* neither the requested nor the fallback language is among the fragment's ids
NeitherMatches(got, req, opts, fb) ==
    /\ got.ok /\ req.ok
    /\ ~includes(got.ids, req.v)
    /\ FallbackSet(opts) => (fb.ok /\ ~includes(got.ids, fb.v))

\* the fragment's ids hold NO_LANGUAGE, or there are none
Unlabelled(got) ==
    got.ok /\ (includes(got.ids, Str(NO_LANGUAGE)) \/ Len(got.ids) = 0)

\* the call reached the no-language rule: an options object, neither language
\* matched, and the fragment's ids hold NO_LANGUAGE or are empty
InNoLanguageBranch ==
    /\ MatchCall
    /\ MatchOpts.kind = "object"
    /\ LET opts == MatchOpts
           got  == getLanguageId(obj, opts)
           req  == normalizeLanguageId(language, opts)
           fb   == normalizeLanguageId(opts.fallbackLanguage, opts)
       IN  NeitherMatches(got, req, opts, fb) /\ Unlabelled(got)

\* the fragment is undefined or has no language attribute
DeclaresNoLanguage ==
    obj.kind = "undefined" \/ (obj.language.t = "prim" /\ IsNullish(obj.language.p))

\* an array entry that contributes an id: undefined, a string, an object with a truthy id
Contributes(e) ==
    \/ e.t = "prim" /\ (IsNullish(e.p) \/ e.p.t = "string")
    \/ e.t = "object" /\ Truthy(e.p)

\* the lookup map the caller handed over, read off the options
GivenLookupMap ==
    IF languageOptions.kind = "object" /\ languageOptions.hasLookupMap
    THEN languageOptions.lookupMap
    ELSE DEFAULT_LANGUAGE_LOOKUP

\* a key made of lower-case letters only, and at least one
LowerAlphaKey(k) == Len(k) > 0 /\ \A i \in 1..Len(k) : IsLower(k[i])

\* the suffixes K of s for which s is K itself or p + "/" + K
CaseVariantTails(s) ==
    { SubSeq(s, i + 1, Len(s)) : i \in { j \in 0..Len(s) : j = 0 \/ s[j] = "/" } }

----------------------------------------------------------------------------
(* C1 *)

\* C1: doesObjectLanguageMatch follows the order requested language, fallback
\* language, no-language rule: when the fragment's ids hold the normalized
\* requested language, or a fallback language is set and the ids hold its
\* normalized form, the result is true whatever includeItemsWithNoLanguage is,
\* also when the ids hold NO_LANGUAGE too; when neither matches and the fragment
\* is labelled, the result (of a call with an options object) is false whatever
\* includeItemsWithNoLanguage is.
\* A fragment with language "fr" matches "en" with fallbackLanguage "fr" and
\* does not match "en" with empty options.
C1_PriorityOrder ==
    MatchCall =>
        LET opts == MatchOpts
            got  == getLanguageId(obj, opts)
            req  == normalizeLanguageId(language, opts)
            fb   == normalizeLanguageId(opts.fallbackLanguage, opts)
        IN  /\ (RequestedMatches(got, req) \/ (req.ok /\ FallbackMatches(got, opts, fb)))
                  => result = RetBool(TRUE)
            /\ (opts.kind = "object" /\ NeitherMatches(got, req, opts, fb) /\ ~Unlabelled(got))
                  => result = RetBool(FALSE)
            /\ (obj = Object(LangPrim(Str(FR))) /\ language = Str(EN) /\ ~opts.hasLookupMap) =>
                  /\ (FallbackSet(opts) /\ opts.fallbackLanguage = Str(FR))
                        => result = RetBool(TRUE)
                  /\ languageOptions = EmptyOptions => result = RetBool(FALSE)

\* the fallback language matched a fragment that also holds an unlabelled entry,
\* with the opt-out set
C1_Witness ==
    /\ MatchCall
    /\ MatchOpts.includeItemsWithNoLanguage = Bool(FALSE)
    /\ result = RetBool(TRUE)
    /\ LET opts == MatchOpts
           got  == getLanguageId(obj, opts)
           req  == normalizeLanguageId(language, opts)
           fb   == normalizeLanguageId(opts.fallbackLanguage, opts)
       IN  ~RequestedMatches(got, req) /\ FallbackMatches(got, opts, fb) /\ Unlabelled(got)

----------------------------------------------------------------------------
(* C2 *)

\* C2 as stated: in the no-language branch the result is false only when
\* includeItemsWithNoLanguage is exactly the boolean false, and true for every
\* other value (absent, undefined, null, 0, the empty string, true).
C2_OnlyBooleanFalseExcludes ==
    InNoLanguageBranch =>
        /\ result.ok
        /\ result.b = (MatchOpts.includeItemsWithNoLanguage # Bool(FALSE))

\* C2 amended: in the no-language branch the result is false when
\* includeItemsWithNoLanguage is loosely equal to false (false, 0 or the empty
\* string) and true when it is absent, undefined, null or true.
C2_LooseFalseExcludes ==
    InNoLanguageBranch =>
        /\ result.ok
        /\ MatchOpts.includeItemsWithNoLanguage \in {Bool(FALSE), Num(0), Str(<<>>)}
              => result.b = FALSE
        /\ MatchOpts.includeItemsWithNoLanguage \in {Undefined, Null, Bool(TRUE)}
              => result.b = TRUE

\* an unlabelled fragment is excluded by includeItemsWithNoLanguage: 0
C2_Witness ==
    /\ MatchCall
    /\ MatchOpts.includeItemsWithNoLanguage = Num(0)
    /\ InNoLanguageBranch
    /\ result = RetBool(FALSE)

----------------------------------------------------------------------------
(* C3 *)

\* C3 as stated: getLanguageId returns a non-empty collection for every
\* fragment, and exactly [NO_LANGUAGE] for a fragment without a language.
C3_NeverEmpty ==
    op = "getLanguageId" =>
        /\ result.ok => Len(result.ids) > 0
        /\ DeclaresNoLanguage => result = RetIds(<<Str(NO_LANGUAGE)>>)

\* C3 amended: getLanguageId returns exactly [NO_LANGUAGE] for a fragment that is
\* undefined or has no language; when it returns, the collection is empty
\* exactly when language is an array none of whose entries is undefined, a
\* string or an object with a truthy id (the empty array included), and
\* non-empty otherwise.
C3_EmptyOnlyForArraysWithoutIds ==
    op = "getLanguageId" =>
        /\ DeclaresNoLanguage => result = RetIds(<<Str(NO_LANGUAGE)>>)
        /\ result.ok =>
              (Len(result.ids) = 0 <=>
                  /\ ~DeclaresNoLanguage
                  /\ obj.language.t = "array"
                  /\ \A i \in 1..Len(obj.language.items) : ~Contributes(obj.language.items[i]))

\* an array holding only objects without an id yields the empty collection
C3_Witness ==
    /\ op = "getLanguageId"
    /\ obj.kind = "object" /\ obj.language.t = "array"
    /\ Len(obj.language.items) > 0
    /\ result = RetIds(<<>>)

----------------------------------------------------------------------------
(* C4 *)

\* C4: the collection getLanguageId returns never holds the same canonical
\* identifier twice.
C4_NoDuplicates ==
    (op = "getLanguageId" /\ result.ok) =>
        \A i, j \in 1..Len(result.ids) : i # j => result.ids[i] # result.ids[j]

----------------------------------------------------------------------------
(* C5 *)

\* C5: for a fragment whose language is a single object with a string id,
\* getLanguageId returns the normalized form of that id.
C5_SingleObjectLanguage ==
    (op = "getLanguageId" /\ obj.kind = "object"
        /\ obj.language.t = "object" /\ obj.language.p.t = "string") =>
        result = RetIds(<<normalizeLanguageId(obj.language.p, languageOptions).v>>)

----------------------------------------------------------------------------
(* C6 *)

----------------------------------------------------------------------------
(* C7 *)

\* C7 as stated: a fragment that declares no language never matches a defined
\* requested language when includeItemsWithNoLanguage is false, for every
\* lookupMap and fallbackLanguage.
C7_NoLanguageNeverMatches ==
    (MatchCall /\ DeclaresNoLanguage /\ MatchOpts.kind = "object"
        /\ MatchOpts.includeItemsWithNoLanguage = Bool(FALSE)) =>
        result = RetBool(FALSE)

\* C7 amended: with includeItemsWithNoLanguage false, a fragment that declares
\* no language matches exactly when the requested language, or the fallback
\* language if one is set, normalizes to the string NO_LANGUAGE; for every other
\* requested and fallback language the result is false.
C7_NoLanguageMatchesOnlySentinel ==
    (MatchCall /\ DeclaresNoLanguage /\ MatchOpts.kind = "object"
        /\ MatchOpts.includeItemsWithNoLanguage = Bool(FALSE)) =>
        /\ result.ok
        /\ result.b =
              (\/ normalizeLanguageId(language, MatchOpts).v = Str(NO_LANGUAGE)
               \/ /\ FallbackSet(MatchOpts)
                  /\ normalizeLanguageId(MatchOpts.fallbackLanguage, MatchOpts).v
                        = Str(NO_LANGUAGE))

\* the documented example: no language attribute, "en" requested, opt-out set
C7_Witness ==
    /\ MatchCall /\ obj = Object(LangPrim(Undefined))
    /\ language = Str(EN)
    /\ MatchOpts.kind = "object" /\ ~MatchOpts.hasLookupMap
    /\ MatchOpts.includeItemsWithNoLanguage = Bool(FALSE)
    /\ result = RetBool(FALSE)

----------------------------------------------------------------------------
(* C8 *)

\* C8: no call throws: normalizeLanguageId of a string or of undefined returns a
\* string, getLanguageId returns a collection and doesObjectLanguageMatch a
\* boolean, for every fragment shape and every options value.
C8_NeverThrows ==
    /\ (op = "normalizeLanguageId" /\ lang_id.t \in {"string", "undefined"}) =>
          (result.ok /\ result.v.t = "string")
    /\ op = "getLanguageId" => result.ok
    /\ (op = "doesObjectLanguageMatch" /\ languageOptions.kind # "null") => result.ok

----------------------------------------------------------------------------
(* C9 *)

\* C9 as stated: a mapped value c of the active lookup map is returned again by
\* normalizeLanguageId only if c, lower-cased and path-reduced, is a key of the
\* map.
C9_FixedOnlyIfKey ==
    (op = "normalizeLanguageId" /\ lang_id.t = "string"
        /\ lang_id.s \in MapValues(GivenLookupMap)
        /\ result = RetVal(lang_id)) =>
        HasKey(GivenLookupMap, ReducedLang(lang_id.s))

\* C9 amended: a mapped value c of the active lookup map is returned again by
\* normalizeLanguageId exactly when c, lower-cased and path-reduced, is not a
\* key of the map or is a key mapped to c itself; when it is a key mapped to
\* another value, that value is returned, so normalizing twice need not equal
\* normalizing once.
C9_FixedUnlessRemapped ==
    (op = "normalizeLanguageId" /\ lang_id.t = "string"
        /\ lang_id.s \in MapValues(GivenLookupMap)) =>
        /\ result.ok
        /\ result.v = lang_id <=>
              \A e \in GivenLookupMap : e.k = ReducedLang(lang_id.s) => e.v = lang_id.s
        /\ \A e \in GivenLookupMap : e.k = ReducedLang(lang_id.s) => result.v = Str(e.v)

\* a canonical value that is itself a key of a custom map is mapped on
C9_Witness ==
    /\ op = "normalizeLanguageId" /\ lang_id.t = "string"
    /\ languageOptions.kind = "object" /\ languageOptions.hasLookupMap
    /\ lang_id.s \in MapValues(languageOptions.lookupMap)
    /\ HasKey(languageOptions.lookupMap, ReducedLang(lang_id.s))
    /\ result.ok /\ result.v # lang_id

----------------------------------------------------------------------------
(* C10 *)

\* C10 as stated: for every key k of the active lookup map, every case variant
\* K of k and every prefix p, normalizeLanguageId(K) and, K being non-empty and
\* alphabetic, normalizeLanguageId(p + "/" + K) return the value mapped to k.
C10_EveryKeyCaseInsensitive ==
    (op = "normalizeLanguageId" /\ lang_id.t = "string") =>
        \A e \in GivenLookupMap :
            /\ toLowerCase(lang_id.s) = toLowerCase(e.k) => result = RetVal(Str(e.v))
            /\ \A K \in CaseVariantTails(lang_id.s) :
                  (toLowerCase(K) = toLowerCase(e.k) /\ Len(K) > 0
                      /\ \A i \in 1..Len(K) : IsAlpha(K[i]))
                  => result = RetVal(Str(e.v))

\* C10 amended: for every key k of the active lookup map that is non-empty,
\* lower-case and purely alphabetic, every case variant K of k and every prefix
\* p, normalizeLanguageId(K) and normalizeLanguageId(p + "/" + K) return the
\* value mapped to k.
C10_LowerAlphaKeyCaseInsensitive ==
    (op = "normalizeLanguageId" /\ lang_id.t = "string") =>
        \A e \in GivenLookupMap :
            LowerAlphaKey(e.k) =>
                \A K \in CaseVariantTails(lang_id.s) :
                    toLowerCase(K) = e.k => result = RetVal(Str(e.v))

\* an upper-case spelling behind a path prefix found the key of a custom map
C10_Witness ==
    /\ op = "normalizeLanguageId" /\ lang_id.t = "string"
    /\ languageOptions.kind = "object" /\ languageOptions.hasLookupMap
    /\ \E e \in languageOptions.lookupMap :
          /\ LowerAlphaKey(e.k)
          /\ \E K \in CaseVariantTails(lang_id.s) :
                toLowerCase(K) = e.k /\ K # e.k /\ K # lang_id.s
          /\ result = RetVal(Str(e.v))

====
